---- MODULE Spec2Model ----
(***************************************************************************)
(* Model of docs/generate.py: the naming normaliser (get_class_name,       *)
(* get_file_name), the path resolver (get_create_path_for,                 *)
(* get_path_for_type, get_relative_path) and generate_documentation with   *)
(* its two passes over the schema.                                         *)
(*                                                                         *)
(* Identifiers and type keys are sequences of one-character strings, so    *)
(* that the regular-expression rewrites are computed character by          *)
(* character.  A path is a sequence of segments (strings); the path '.'    *)
(* is <<".">>.  A page's content is the sequence of writer calls made on   *)
(* it.                                                                     *)
(***************************************************************************)
EXTENDS Integers, Sequences, FiniteSets, TLC

\* ------------------------------------------------------------------------
\* Bounds
\* ------------------------------------------------------------------------
MaxObjects == 2
MaxRuns == 2

\* ------------------------------------------------------------------------
\* Characters
\* ------------------------------------------------------------------------
Lowers == <<"a","b","c","d","e","f","g","h","i","j","k","l","m",
            "n","o","p","q","r","s","t","u","v","w","x","y","z">>
Uppers == <<"A","B","C","D","E","F","G","H","I","J","K","L","M",
            "N","O","P","Q","R","S","T","U","V","W","X","Y","Z">>
Digits == {"0","1","2","3","4","5","6","7","8","9"}

Range(f) == {f[k] : k \in DOMAIN f}
IsLower(c) == c \in Range(Lowers)
IsUpper(c) == c \in Range(Uppers)
IsDigit(c) == c \in Digits
IndexIn(c, t) == CHOOSE k \in DOMAIN t : t[k] = c
ToUpper(c) == IF IsLower(c) THEN Uppers[IndexIn(c, Lowers)] ELSE c
ToLower(c) == IF IsUpper(c) THEN Lowers[IndexIn(c, Uppers)] ELSE c

\* str.lower() / str.upper() on a whole string
StrLower(s) == [k \in DOMAIN s |-> ToLower(s[k])]
StrUpper(s) == [k \in DOMAIN s |-> ToUpper(s[k])]

\* The Python string a character sequence stands for
RECURSIVE Str(_)
Str(cs) == IF cs = <<>> THEN "" ELSE Head(cs) \o Str(Tail(cs))

DropFirst(s, n) == IF n >= Len(s) THEN <<>> ELSE SubSeq(s, n + 1, Len(s))

\* str.replace('_', '')
RECURSIVE StripUnderscores(_)
StripUnderscores(s) ==
    IF s = <<>> THEN <<>>
    ELSE IF Head(s) = "_" THEN StripUnderscores(Tail(s))
    ELSE <<Head(s)>> \o StripUnderscores(Tail(s))

\* 'c' in s
Contains(s, c) == \E k \in DOMAIN s : s[k] = c

\* s.split(c) for a string holding exactly one c: the (before, after) pair
SplitAt(s, c) ==
    LET k == CHOOSE j \in DOMAIN s : s[j] = c /\ \A h \in 1..(j - 1) : s[h] # c
    IN  <<SubSeq(s, 1, k - 1), DropFirst(s, k)>>

\* ------------------------------------------------------------------------
\* Naming normaliser
\* ------------------------------------------------------------------------
\* re.sub(r'_([a-z])', lambda m: m.group(1).upper(), name)
RECURSIVE SubUnderscoreLower(_)
SubUnderscoreLower(s) ==
    IF s = <<>> THEN <<>>
    ELSE IF Len(s) >= 2 /\ s[1] = "_" /\ IsLower(s[2])
         THEN <<ToUpper(s[2])>> \o SubUnderscoreLower(DropFirst(s, 2))
         ELSE <<s[1]>> \o SubUnderscoreLower(Tail(s))

\* get_class_name(tlobject) for a name and the 'is a TLObject that is a
\* function' test of line 23
RequestSuffix == <<"R","e","q","u","e","s","t">>

get_class_name(name, isFunctionObject) ==
    LET r1 == SubUnderscoreLower(name)
        r2 == StrUpper(SubSeq(r1, 1, IF Len(r1) >= 1 THEN 1 ELSE 0))
                \o StripUnderscores(DropFirst(r1, 1))
    IN  IF isFunctionObject THEN r2 \o RequestSuffix ELSE r2

\* Length of the maximal run of lower-case letters at the start of s
RECURSIVE LowerRun(_)
LowerRun(s) ==
    IF s = <<>> \/ ~IsLower(Head(s)) THEN 0 ELSE 1 + LowerRun(Tail(s))

\* re.sub('(.)([A-Z][a-z]+)', r'\1_\2', name)
RECURSIVE SubCapitalisedRun(_)
SubCapitalisedRun(s) ==
    IF s = <<>> THEN <<>>
    ELSE IF Len(s) >= 3 /\ IsUpper(s[2]) /\ IsLower(s[3])
         THEN LET n == 2 + LowerRun(DropFirst(s, 2))
              IN  <<s[1], "_">> \o SubSeq(s, 2, n)
                    \o SubCapitalisedRun(DropFirst(s, n))
         ELSE <<s[1]>> \o SubCapitalisedRun(Tail(s))

\* re.sub('([a-z0-9])([A-Z])', r'\1_\2', s1)
RECURSIVE SubLowerUpper(_)
SubLowerUpper(s) ==
    IF s = <<>> THEN <<>>
    ELSE IF Len(s) >= 2 /\ (IsLower(s[1]) \/ IsDigit(s[1])) /\ IsUpper(s[2])
         THEN <<s[1], "_", s[2]>> \o SubLowerUpper(DropFirst(s, 2))
         ELSE <<s[1]>> \o SubLowerUpper(Tail(s))

HtmlExt == <<".","h","t","m","l">>

get_file_name(name, add_extension) ==
    LET s1 == SubCapitalisedRun(name)
        result == StrLower(SubLowerUpper(s1))
    IN  IF add_extension THEN result \o HtmlExt ELSE result

\* ------------------------------------------------------------------------
\* Path resolver
\* ------------------------------------------------------------------------
Dot == <<".">>

\* os.path.dirname
dirname(path) == IF Len(path) <= 1 THEN <<>> ELSE SubSeq(path, 1, Len(path) - 1)

\* os.path.join(a, b)
join(a, b) == a \o b

\* The normalisation os.path.abspath applies below the working directory:
\* '.' segments vanish and 'x/..' cancels
RECURSIVE NormFrom(_, _)
NormFrom(acc, rest) ==
    IF rest = <<>> THEN acc
    ELSE IF Head(rest) = "." THEN NormFrom(acc, Tail(rest))
    ELSE IF Head(rest) = ".." /\ acc # <<>> /\ acc[Len(acc)] # ".."
         THEN NormFrom(SubSeq(acc, 1, Len(acc) - 1), Tail(rest))
    ELSE NormFrom(Append(acc, Head(rest)), Tail(rest))

Norm(path) == NormFrom(<<>>, path)

\* len(os.path.commonprefix([start_list, path_list]))
RECURSIVE CommonLen(_, _)
CommonLen(a, b) ==
    IF a = <<>> \/ b = <<>> \/ Head(a) # Head(b) THEN 0
    ELSE 1 + CommonLen(Tail(a), Tail(b))

\* os.path.relpath(path, start=start)
relpath(path, start) ==
    LET start_list == Norm(start)
        path_list == Norm(path)
        k == CommonLen(start_list, path_list)
        rel_list == [j \in 1..(Len(start_list) - k) |-> ".."]
                      \o DropFirst(path_list, k)
    IN  IF rel_list = <<>> THEN Dot ELSE rel_list

\* os.path.isfile against the set of files that exist
isfile(path, files) == Norm(path) \in files

\* All directories os.makedirs(d, exist_ok=True) leaves in existence
makedirs(d, dirs) == dirs \cup {SubSeq(d, 1, k) : k \in 1..Len(d)}

\* get_relative_path(destination, relative_to)
get_relative_path(destination, relative_to, files) ==
    LET base == IF isfile(relative_to, files) THEN dirname(relative_to)
                ELSE relative_to
    IN  relpath(destination, base)

\* The directory get_create_path_for makes for a TLObject
out_dir_for(tlobject) ==
    LET root == IF tlobject.is_function THEN <<"methods">>
                ELSE <<"constructors">>
    IN  IF tlobject.namespace # "" THEN join(root, <<tlobject.namespace>>)
        ELSE root

\* get_create_path_for(tlobject): the returned path
get_create_path_for(tlobject) ==
    join(out_dir_for(tlobject), <<Str(get_file_name(tlobject.name, TRUE))>>)

CoreTypes == { <<"i","n","t">>, <<"l","o","n","g">>,
               <<"i","n","t","1","2","8">>, <<"i","n","t","2","5","6">>,
               <<"d","o","u","b","l","e">>, <<"v","e","c","t","o","r">>,
               <<"s","t","r","i","n","g">>, <<"b","o","o","l">>,
               <<"t","r","u","e">>, <<"b","y","t","e","s">>,
               <<"d","a","t","e">> }

IsCore(type) == StrLower(type) \in CoreTypes

\* As TypeTarget, the anchor keeping the key's letter case
TypeTarget_KeepCase(type) ==
    IF IsCore(type)
    THEN <<"core", "index.html#" \o Str(type)>>
    ELSE IF Contains(type, ".")
    THEN LET parts == SplitAt(type, ".")
         IN  <<"types", Str(parts[1]), Str(get_file_name(parts[2], TRUE))>>
    ELSE <<"types", Str(get_file_name(type, TRUE))>>

\* The path get_path_for_type builds before making it relative
TypeTarget(type) ==
    IF IsCore(type)
    THEN <<"core", "index.html#" \o Str(StrLower(type))>>
    ELSE IF Contains(type, ".")
    THEN LET parts == SplitAt(type, ".")
         IN  <<"types", Str(parts[1]), Str(get_file_name(parts[2], TRUE))>>
    ELSE <<"types", Str(get_file_name(type, TRUE))>>

\* get_path_for_type(type, relative_to)
get_path_for_type(type, relative_to, files) ==
    get_relative_path(TypeTarget(type), relative_to, files)

original_paths ==
    [ css |-> <<"css", "docs.css">>,
      arrow |-> <<"img", "arrow.svg">>,
      index_all |-> <<"core", "index.html">>,
      index_types |-> <<"types", "index.html">>,
      index_methods |-> <<"methods", "index.html">>,
      index_constructors |-> <<"constructors", "index.html">> ]

\* get_relative_paths(original, relative_to)
get_relative_paths(original, relative_to, files) ==
    [k \in DOMAIN original |-> get_relative_path(original[k], relative_to, files)]

\* ------------------------------------------------------------------------
\* Schema objects the parser can yield (TLObject and its args)
\* ------------------------------------------------------------------------
Arg(name, type, is_flag, is_vector, is_generic, flag_indicator, generic_definition) ==
    [ name |-> name, type |-> type, is_flag |-> is_flag,
      is_vector |-> is_vector, is_generic |-> is_generic,
      flag_indicator |-> flag_indicator,
      generic_definition |-> generic_definition ]

TLObject(name, is_function, namespace, result, args) ==
    [ name |-> name, is_function |-> is_function, namespace |-> namespace,
      result |-> result, args |-> args ]

T_string == <<"s","t","r","i","n","g">>
T_int == <<"i","n","t">>
T_true == <<"t","r","u","e">>
T_Bool == <<"B","o","o","l">>
T_Peer == <<"P","e","e","r">>
T_Foo == <<"F","o","o">>
T_nsFoo == <<"n","s",".","F","o","o">>
T_ResolvedPeer == <<"R","e","s","o","l","v","e","d","P","e","e","r">>

\* resolve_username(username: string) -> ResolvedPeer
O_resolve_username ==
    TLObject(<<"r","e","s","o","l","v","e","_","u","s","e","r","n","a","m","e">>,
             TRUE, "", T_ResolvedPeer,
             << Arg("username", T_string, FALSE, FALSE, FALSE, FALSE, FALSE) >>)

\* resolvedPeer (peer: Peer) = ResolvedPeer
O_resolvedPeer ==
    TLObject(<<"r","e","s","o","l","v","e","d","P","e","e","r">>,
             FALSE, "", T_ResolvedPeer,
             << Arg("peer", T_Peer, FALSE, FALSE, FALSE, FALSE, FALSE) >>)

\* Three constructors of Foo whose names differ in case or spelling only
O_fooBar == TLObject(<<"f","o","o","B","a","r">>, FALSE, "", T_Foo, <<>>)
O_foo_bar == TLObject(<<"f","o","o","_","b","a","r">>, FALSE, "", T_Foo, <<>>)
O_FooBar == TLObject(<<"F","o","o","B","a","r">>, FALSE, "", T_Foo, <<>>)

\* boolTrue = Bool
O_boolTrue == TLObject(<<"b","o","o","l","T","r","u","e">>, FALSE, "", T_Bool, <<>>)

\* ns.getFoo {X:Type} flags:# flagA:flags.0?true plain1:int
\*           plain2:Vector<Peer> flagB:flags.1?ns.Foo query:!X = ns.Foo
O_getFoo ==
    TLObject(<<"g","e","t","F","o","o">>, TRUE, "ns", T_nsFoo,
             << Arg("X", <<"T","y","p","e">>, FALSE, FALSE, FALSE, FALSE, TRUE),
                Arg("flags", <<"#">>, FALSE, FALSE, FALSE, TRUE, FALSE),
                Arg("flagA", T_true, TRUE, FALSE, FALSE, FALSE, FALSE),
                Arg("plain1", T_int, FALSE, FALSE, FALSE, FALSE, FALSE),
                Arg("plain2", T_Peer, FALSE, TRUE, FALSE, FALSE, FALSE),
                Arg("flagB", T_nsFoo, TRUE, FALSE, FALSE, FALSE, FALSE),
                Arg("query", <<"X">>, FALSE, FALSE, TRUE, FALSE, FALSE) >>)

\* ns.foo (x: long) = ns.Foo
O_nsfoo ==
    TLObject(<<"f","o","o">>, FALSE, "ns", T_nsFoo,
             << Arg("x", <<"l","o","n","g">>, FALSE, FALSE, FALSE, FALSE, FALSE) >>)

Catalogue == { O_resolve_username, O_resolvedPeer, O_fooBar, O_foo_bar,
               O_FooBar, O_boolTrue, O_getFoo, O_nsfoo }

\* The schemas: up to MaxObjects distinct objects in any order
Schemas ==
    UNION { { s \in [1..n -> Catalogue] :
                \A a, b \in 1..n : a # b => s[a] # s[b] } : n \in 1..MaxObjects }

\* ------------------------------------------------------------------------
\* Page content: the sequence of writer calls made on the open page
\* ------------------------------------------------------------------------
NoLink == <<>>

Call(c, text, link, opt) == [ call |-> c, text |-> text, link |-> link, opt |-> opt ]

\* As InsertByFlag, an element put before the elements of equal key
InsertByFlag_Unstable(acc, a) ==
    LET later == {k \in DOMAIN acc : acc[k].is_flag \/ ~a.is_flag}
        pos == IF later = {} THEN Len(acc) + 1
               ELSE CHOOSE k \in later : \A h \in later : k <= h
    IN  SubSeq(acc, 1, pos - 1) \o <<a>> \o DropFirst(acc, pos - 1)

\* sorted(list, key=lambda a: a.is_flag): a stable sort, False before True
InsertByFlag(acc, a) ==
    LET later == {k \in DOMAIN acc : acc[k].is_flag /\ ~a.is_flag}
        pos == IF later = {} THEN Len(acc) + 1
               ELSE CHOOSE k \in later : \A h \in later : k <= h
    IN  SubSeq(acc, 1, pos - 1) \o <<a>> \o DropFirst(acc, pos - 1)

RECURSIVE SortFrom(_, _)
SortFrom(acc, rest) ==
    IF rest = <<>> THEN acc
    ELSE SortFrom(InsertByFlag(acc, Head(rest)), Tail(rest))

sorted_by_is_flag(list) == SortFrom(<<>>, list)

\* The args shown in the table (lines 145-147)
DisplayedArgs(tlobject) ==
    sorted_by_is_flag(SelectSeq(tlobject.args,
        LAMBDA a : ~a.flag_indicator /\ ~a.generic_definition))

\* The description built for an argument, after strip() (lines 163-171)
Description(arg) ==
    LET fr == (IF arg.is_vector
               THEN <<"A list must be supplied for this argument.">> ELSE <<>>)
           \o (IF arg.is_generic
               THEN <<"A different MTProtoRequest must be supplied for this argument.">>
               ELSE <<>>)
           \o (IF arg.is_flag
               THEN <<"This argument can be omitted.">> ELSE <<>>)
    IN  IF Len(fr) = 0 THEN ""
        ELSE IF Len(fr) = 1 THEN fr[1]
        ELSE IF Len(fr) = 2 THEN fr[1] \o " " \o fr[2]
        ELSE fr[1] \o " " \o fr[2] \o " " \o fr[3]

\* The three rows written for one argument (lines 153-171)
ArgRows(arg, filename, files) ==
    << Call("add_row", arg.name, NoLink, "bold"),
       Call("add_row", Str(arg.type),
            get_path_for_type(arg.type, filename, files), "center"),
       Call("add_row", Description(arg), NoLink, "") >>

\* The rows of the loop of line 152
RECURSIVE AllArgRows(_, _, _)
AllArgRows(args, filename, files) ==
    IF args = <<>> THEN <<>>
    ELSE ArgRows(Head(args), filename, files)
           \o AllArgRows(Tail(args), filename, files)

\* The writer calls of one object page (lines 117-180)
ObjectPage(tlobject, filename, paths, files) ==
    LET title == Str(get_class_name(tlobject.name, tlobject.is_function))
        args == DisplayedArgs(tlobject)
    IN  << Call("write_head", title, paths.css, ""),
           Call("set_menu_separator", "", paths.arrow, ""),
           Call("add_menu", "API", paths.index_all, ""),
           Call("add_menu",
                IF tlobject.is_function THEN "Methods" ELSE "Constructors",
                IF tlobject.is_function THEN paths.index_methods
                ELSE paths.index_constructors, "") >>
        \o (IF tlobject.namespace # ""
            THEN << Call("add_menu", tlobject.namespace, <<"index.html">>, "") >>
            ELSE <<>>)
        \o << Call("add_menu", Str(get_file_name(tlobject.name, FALSE)), NoLink, ""),
              Call("end_menu", "", NoLink, ""),
              Call("write_title", title, NoLink, ""),
              Call("write_code", Str(tlobject.name), NoLink, ""),
              Call("write_title",
                   IF tlobject.is_function THEN "Parameters" ELSE "Members",
                   NoLink, "level=3") >>
        \o (IF args # <<>>
            THEN << Call("begin_table", "", NoLink, "column_count=3") >>
                 \o AllArgRows(args, filename, files)
                 \o << Call("end_table", "", NoLink, "") >>
            ELSE << Call("write_text",
                         IF tlobject.is_function
                         THEN "This request takes no input parameters."
                         ELSE "This type has no members.", NoLink, "") >>)
        \o << Call("end_body", "", NoLink, "") >>

\* As ConstructorsSentence, without the branch for a single constructor
ConstructorsSentence_NoSingular(constructors) ==
    IF constructors = <<>> THEN "This type has no constructors available."
    ELSE "This type has " \o ToString(Len(constructors))
           \o " constructors available."

\* The sentence under 'Available constructors' (lines 236-241)
ConstructorsSentence(constructors) ==
    IF constructors = <<>> THEN "This type has no constructors available."
    ELSE IF Len(constructors) = 1 THEN "This type has one constructor available."
    ELSE "This type has " \o ToString(Len(constructors))
           \o " constructors available."

\* The sentence under 'Methods returning this type' (lines 255-260)
FunctionsSentence(functions) ==
    IF functions = <<>> THEN "No method returns this type."
    ELSE IF Len(functions) = 1 THEN "Only the following method returns this type."
    ELSE "The following " \o ToString(Len(functions))
           \o " methods return this type as a result."

\* One row of a constructor or function table (lines 244-250, 263-268)
ObjectRow(tlobject, filename, files) ==
    << Call("add_row",
            Str(get_class_name(tlobject.name, tlobject.is_function)),
            get_relative_path(get_create_path_for(tlobject), filename, files),
            "center") >>

\* The rows of the loops of lines 244 and 263
RECURSIVE ObjectRows(_, _, _)
ObjectRows(objs, filename, files) ==
    IF objs = <<>> THEN <<>>
    ELSE ObjectRow(Head(objs), filename, files)
           \o ObjectRows(Tail(objs), filename, files)

\* dict.get(key, []) and dict[key] on a dict kept as a sequence of
\* [key, objs] entries in insertion order
DictHas(d, key) == \E k \in DOMAIN d : d[k].key = key
DictGet(d, key) ==
    IF DictHas(d, key) THEN d[CHOOSE k \in DOMAIN d : d[k].key = key].objs
    ELSE <<>>

\* As DictAppend, the object put at the front of the list
DictAppend_Prepend(d, key, obj) ==
    IF DictHas(d, key)
    THEN [k \in DOMAIN d |->
            IF d[k].key = key THEN [d[k] EXCEPT !.objs = <<obj>> \o @]
            ELSE d[k]]
    ELSE Append(d, [key |-> key, objs |-> <<obj>>])

\* Lines 194-197: append to the list under the key, creating it if absent
DictAppend(d, key, obj) ==
    IF DictHas(d, key)
    THEN [k \in DOMAIN d |->
            IF d[k].key = key THEN [d[k] EXCEPT !.objs = Append(@, obj)]
            ELSE d[k]]
    ELSE Append(d, [key |-> key, objs |-> <<obj>>])

\* The namespace of a type key (lines 205-208); "" stands for None
TypeNamespace(tltype) ==
    IF Contains(tltype, ".") THEN Str(SplitAt(tltype, ".")[1]) ELSE ""

TypeName(tltype) ==
    IF Contains(tltype, ".") THEN SplitAt(tltype, ".")[2] ELSE tltype

\* The writer calls of one type page (lines 214-270)
TypePage(tltype, constructors, functions, filename, paths, files) ==
    LET namespace == TypeNamespace(tltype)
        name == TypeName(tltype)
        title == Str(get_class_name(name, FALSE))
    IN  << Call("write_head", title, paths.css, ""),
           Call("set_menu_separator", "", paths.arrow, ""),
           Call("add_menu", "API", paths.index_all, ""),
           Call("add_menu", "Types", paths.index_types, "") >>
        \o (IF namespace # ""
            THEN << Call("add_menu", namespace, <<"index.html">>, "") >>
            ELSE <<>>)
        \o << Call("add_menu", Str(get_file_name(name, FALSE)), NoLink, ""),
              Call("end_menu", "", NoLink, ""),
              Call("write_title", title, NoLink, ""),
              Call("write_title", "Available constructors", NoLink, "level=3"),
              Call("write_text", ConstructorsSentence(constructors), NoLink, ""),
              Call("begin_table", "", NoLink, "column_count=1") >>
        \o ObjectRows(constructors, filename, files)
        \o << Call("end_table", "", NoLink, ""),
              Call("write_title", "Methods returning this type", NoLink, "level=3"),
              Call("write_text", FunctionsSentence(functions), NoLink, ""),
              Call("begin_table", "", NoLink, "column_count=1") >>
        \o ObjectRows(functions, filename, files)
        \o << Call("end_table", "", NoLink, ""),
              Call("end_body", "", NoLink, "") >>

\* ------------------------------------------------------------------------
\* The page writer (docs.docs_writer.DocsWriter used as a context manager)
\* ------------------------------------------------------------------------
\* Entering the writer opens the output file for writing: the file exists
\* and is empty
DocsWriterEnter(d, path) ==
    [p \in DOMAIN d \cup {path} |-> IF p = path THEN <<>> ELSE d[p]]

\* The calls made on the open writer become the content of its file
DocsWriterWrite(d, path, calls) == [d EXCEPT ![path] = calls]

\* Leaving the writer closes its file
DocsWriterExit(writers, path) == writers \ {path}

\* ------------------------------------------------------------------------
\* State
\* ------------------------------------------------------------------------
VARIABLES
    tlobjects,    \* the parsed schema (line 107)
    run,          \* number of runs of generate_documentation started
    pc,           \* position within the run
    i,            \* index of the current loop iteration
    filename,     \* the page being written
    paths,        \* the relative asset paths of the page being written
    open,         \* the paths of the writers that are open
    dirs,         \* directories that exist under the output root
    disk,         \* the files under the output root and their content
    tltypes,      \* type key -> constructors (line 188)
    tlfunctions,  \* type key -> functions (line 189)
    firstRun,     \* the files as the first run left them, once it completed
    probe         \* the last direct call of a path function and its result

vars == << tlobjects, run, pc, i, filename, paths, open, dirs, disk,
           tltypes, tlfunctions, firstRun, probe >>

NoPaths == [k \in DOMAIN original_paths |-> <<>>]
NoSnapshot == <<>>
NoProbe == [fn |-> "none", type |-> <<>>, obj |-> 0, relative_to |-> <<>>,
            result |-> <<>>]

Assets == { original_paths.css, original_paths.arrow }

files == DOMAIN disk

Init ==
    /\ tlobjects \in Schemas
    /\ run = 0
    /\ pc = "idle"
    /\ i = 0
    /\ filename = <<>>
    /\ paths = NoPaths
    /\ open = {}
    /\ dirs = { dirname(a) : a \in Assets }
    /\ disk = [a \in Assets |-> <<>>]
    /\ tltypes = <<>>
    /\ tlfunctions = <<>>
    /\ firstRun = NoSnapshot
    /\ probe = NoProbe

\* ------------------------------------------------------------------------
\* generate_documentation
\* ------------------------------------------------------------------------
\* The function returns: its locals are gone, the files stay
Return(d) ==
    /\ pc' = "done"
    /\ i' = 0
    /\ filename' = <<>>
    /\ paths' = NoPaths
    /\ tltypes' = <<>>
    /\ tlfunctions' = <<>>
    /\ firstRun' = IF run = 1 THEN d ELSE firstRun

\* An exception leaves the function
Raise ==
    /\ pc' = "aborted"
    /\ i' = 0
    /\ filename' = <<>>
    /\ paths' = NoPaths
    /\ tltypes' = <<>>
    /\ tlfunctions' = <<>>

\* The script is run (again) over the same schema and output tree
StartRun ==
    /\ pc \in {"idle", "done"}
    /\ run < MaxRuns
    /\ run' = run + 1
    /\ pc' = IF Len(tlobjects) >= 1 THEN "A_path" ELSE "index"
    /\ i' = 1
    /\ tltypes' = <<>>
    /\ tlfunctions' = <<>>
    /\ probe' = NoProbe
    /\ UNCHANGED << tlobjects, filename, paths, open, dirs, disk, firstRun >>

\* Lines 111-114: the page's path (its directory is created) and the asset
\* paths relative to it
PassA_Path ==
    /\ pc = "A_path"
    /\ LET tlobject == tlobjects[i]
       IN  /\ dirs' = makedirs(out_dir_for(tlobject), dirs)
           /\ filename' = get_create_path_for(tlobject)
           /\ paths' = get_relative_paths(original_paths,
                                          get_create_path_for(tlobject), files)
    /\ pc' = "A_open"
    /\ UNCHANGED << tlobjects, run, i, open, disk, tltypes, tlfunctions,
                    firstRun, probe >>

\* Line 116: with DocsWriter(filename, ...) as docs
PassA_Open ==
    /\ pc = "A_open"
    /\ open' = open \cup {filename}
    /\ disk' = DocsWriterEnter(disk, filename)
    /\ pc' = "A_write"
    /\ UNCHANGED << tlobjects, run, i, filename, paths, dirs, tltypes,
                    tlfunctions, firstRun, probe >>

\* Lines 117-180: the body of the with block
PassA_Write ==
    /\ pc = "A_write"
    /\ disk' = DocsWriterWrite(disk, filename,
                   ObjectPage(tlobjects[i], filename, paths, files))
    /\ pc' = "A_close"
    /\ UNCHANGED << tlobjects, run, i, filename, paths, open, dirs, tltypes,
                    tlfunctions, firstRun, probe >>

\* The with block of line 116 is left; the loop of line 110 goes on
PassA_Close ==
    /\ pc = "A_close"
    /\ open' = DocsWriterExit(open, filename)
    /\ IF i < Len(tlobjects)
       THEN /\ i' = i + 1
            /\ pc' = "A_path"
       ELSE /\ i' = 1
            /\ pc' = "index"
    /\ UNCHANGED << tlobjects, run, filename, paths, dirs, disk, tltypes,
                    tlfunctions, firstRun, probe >>

\* Lines 190-197: one iteration of the grouping loop
BuildIndex ==
    /\ pc = "index"
    /\ i <= Len(tlobjects)
    /\ LET tlobject == tlobjects[i]
           types == IF tlobject.is_function THEN tltypes
                    ELSE DictAppend(tltypes, tlobject.result, tlobject)
           functions == IF tlobject.is_function
                        THEN DictAppend(tlfunctions, tlobject.result, tlobject)
                        ELSE tlfunctions
       IN  IF i < Len(tlobjects)
           THEN /\ tltypes' = types
                /\ tlfunctions' = functions
                /\ i' = i + 1
                /\ UNCHANGED << pc, filename, paths, firstRun >>
           ELSE IF types # <<>>
           THEN /\ tltypes' = types
                /\ tlfunctions' = functions
                /\ i' = 1
                /\ pc' = "B_path"
                /\ UNCHANGED << filename, paths, firstRun >>
           ELSE Return(disk)
    /\ UNCHANGED << tlobjects, run, open, dirs, disk, probe >>

\* Lines 199-211: the type page's path, its directory, the asset paths
PassB_Path ==
    /\ pc = "B_path"
    /\ LET tltype == tltypes[i].key
           name == get_path_for_type(tltype, Dot, files)
           out_dir == dirname(name)
       IN  /\ filename' = name
           /\ dirs' = makedirs(out_dir, dirs)
           /\ paths' = get_relative_paths(original_paths, out_dir, files)
    /\ pc' = "B_open"
    /\ UNCHANGED << tlobjects, run, i, open, disk, tltypes, tlfunctions,
                    firstRun, probe >>

\* Line 213: with DocsWriter(filename, ...) as docs
PassB_Open ==
    /\ pc = "B_open"
    /\ open' = open \cup {filename}
    /\ disk' = DocsWriterEnter(disk, filename)
    /\ pc' = "B_write"
    /\ UNCHANGED << tlobjects, run, i, filename, paths, dirs, tltypes,
                    tlfunctions, firstRun, probe >>

\* Lines 214-270: the body of the with block
PassB_Write ==
    /\ pc = "B_write"
    /\ disk' = DocsWriterWrite(disk, filename,
                   TypePage(tltypes[i].key, tltypes[i].objs,
                            DictGet(tlfunctions, tltypes[i].key),
                            filename, paths, files))
    /\ pc' = "B_close"
    /\ UNCHANGED << tlobjects, run, i, filename, paths, open, dirs, tltypes,
                    tlfunctions, firstRun, probe >>

\* The with block of line 213 is left; the loop of line 199 goes on or the
\* function returns
PassB_Close ==
    /\ pc = "B_close"
    /\ open' = DocsWriterExit(open, filename)
    /\ IF i < Len(tltypes)
       THEN /\ i' = i + 1
            /\ pc' = "B_path"
            /\ UNCHANGED << filename, paths, tltypes, tlfunctions, firstRun >>
       ELSE Return(disk)
    /\ UNCHANGED << tlobjects, run, dirs, disk, probe >>

\* As FailInPage, the writer used without a with statement: the exception
\* goes on while the writer stays open
FailInPage_Leak ==
    /\ pc \in {"A_write", "A_close", "B_write", "B_close"}
    /\ Raise
    /\ UNCHANGED << tlobjects, run, open, dirs, disk, firstRun, probe >>

\* A writer call or a path computation inside a with block raises: the
\* with statement leaves the writer before the exception goes on
FailInPage ==
    /\ pc \in {"A_write", "A_close", "B_write", "B_close"}
    /\ open' = DocsWriterExit(open, filename)
    /\ Raise
    /\ UNCHANGED << tlobjects, run, dirs, disk, firstRun, probe >>

\* os.makedirs raises (lines 58, 202)
FailOutsidePage ==
    /\ pc \in {"A_path", "B_path"}
    /\ Raise
    /\ UNCHANGED << tlobjects, run, open, dirs, disk, firstRun, probe >>

\* ------------------------------------------------------------------------
\* Direct calls of the path functions once a run has ended
\* ------------------------------------------------------------------------
ProbeTypes == { T_int, T_Bool, T_Peer }

\* get_path_for_type(type, relative_to) for '.', a directory or a page file
ProbeTypePath ==
    /\ pc = "done"
    /\ probe = NoProbe
    /\ \E type \in ProbeTypes, relative_to \in {Dot} \cup dirs \cup (files \ Assets) :
          probe' = [ fn |-> "get_path_for_type", type |-> type, obj |-> 0,
                     relative_to |-> relative_to,
                     result |-> get_path_for_type(type, relative_to, files) ]
    /\ UNCHANGED << tlobjects, run, pc, i, filename, paths, open, dirs, disk,
                    tltypes, tlfunctions, firstRun >>

\* get_relative_path(get_create_path_for(O), relative_to=get_create_path_for(O))
ProbeSelfLink ==
    /\ pc \in {"done", "aborted"}
    /\ probe = NoProbe
    /\ \E k \in DOMAIN tlobjects :
          LET path == get_create_path_for(tlobjects[k])
          IN  /\ dirs' = makedirs(out_dir_for(tlobjects[k]), dirs)
              /\ probe' = [ fn |-> "self_link", type |-> <<>>, obj |-> k,
                            relative_to |-> path,
                            result |-> get_relative_path(path, path, files) ]
    /\ UNCHANGED << tlobjects, run, pc, i, filename, paths, open, disk,
                    tltypes, tlfunctions, firstRun >>

Next ==
    \/ StartRun
    \/ PassA_Path
    \/ PassA_Open
    \/ PassA_Write
    \/ PassA_Close
    \/ BuildIndex
    \/ PassB_Path
    \/ PassB_Open
    \/ PassB_Write
    \/ PassB_Close
    \/ FailInPage
    \/ FailOutsidePage
    \/ ProbeTypePath
    \/ ProbeSelfLink

Spec == Init /\ [][Next]_vars

TypeOK ==
    /\ pc \in {"idle", "A_path", "A_open", "A_write", "A_close", "index",
               "B_path", "B_open", "B_write", "B_close", "done", "aborted"}
    /\ run \in 0..MaxRuns
    /\ open \subseteq files

\* ------------------------------------------------------------------------
\* Vocabulary of the properties
\* ------------------------------------------------------------------------
\* What a link written in a page of directory base denotes under the
\* output root; a leading '..' is a location outside the root
Resolve(base, link) == Norm(base \o link)

\* 'core/index.html#<lower-cased key>'
CoreAnchor(type) == <<"core", "index.html#" \o Str(StrLower(type))>>

\* The directory a relative_to argument stands for when it is '.', a
\* directory or an existing file
BaseOf(relative_to) ==
    IF Norm(relative_to) \in files THEN dirname(Norm(relative_to))
    ELSE Norm(relative_to)

\* The page being written and the directory that contains it
Page == disk[filename]
PageDir == dirname(filename)

\* The add_row calls of the table that follows the given title
TableAfter(content, title) ==
    LET start == CHOOSE k \in DOMAIN content :
                    content[k].call = "write_title" /\ content[k].text = title
        ends == {k \in DOMAIN content : k > start /\ content[k].call = "end_table"}
        end == CHOOSE k \in ends : \A h \in ends : k <= h
    IN  SelectSeq(SubSeq(content, start, end), LAMBDA c : c.call = "add_row")

\* The write_text call that follows the given title
TextAfter(content, title) ==
    LET start == CHOOSE k \in DOMAIN content :
                    content[k].call = "write_title" /\ content[k].text = title
    IN  content[start + 1].text

Texts(rows) == [k \in DOMAIN rows |-> rows[k].text]
ClassNames(objs) ==
    [k \in DOMAIN objs |-> Str(get_class_name(objs[k].name, objs[k].is_function))]

\* The objects of the schema, in schema order, that produce / return type
ConstructorsOf(type) ==
    SelectSeq(tlobjects, LAMBDA o : ~o.is_function /\ o.result = type)
FunctionsOf(type) ==
    SelectSeq(tlobjects, LAMBDA o : o.is_function /\ o.result = type)

Identity(o) == <<o.is_function, o.namespace, o.name>>

\* ------------------------------------------------------------------------
\* C1
\* ------------------------------------------------------------------------
\* C1 (as stated): for a core type key, get_path_for_type returns exactly
\* 'core/index.html#<lower-cased key>' whatever relative_to is.
C1_SameForEveryBase ==
    (probe.fn = "get_path_for_type" /\ IsCore(probe.type))
        => probe.result = CoreAnchor(probe.type)

\* C1 (amended): for a core type key and relative_to '.', a directory or an
\* existing page file, the result is 'core/index.html#<lower-cased key>'
\* expressed relative to the base directory: resolved against that
\* directory it denotes core/index.html#<key>, and it is that very path
\* when the base is the output root.
C1_RelativeToBase ==
    (probe.fn = "get_path_for_type" /\ IsCore(probe.type))
        => /\ Resolve(BaseOf(probe.relative_to), probe.result)
                = CoreAnchor(probe.type)
           /\ BaseOf(probe.relative_to) = <<>>
                => probe.result = CoreAnchor(probe.type)

\* A core key with an upper-case letter asked from a page two levels down
C1_Witness ==
    /\ probe.fn = "get_path_for_type"
    /\ probe.type = T_Bool
    /\ probe.relative_to \in files
    /\ Len(probe.relative_to) = 3
    /\ probe.result = <<"..", "..", "core", "index.html#bool">>

\* ------------------------------------------------------------------------
\* C2
\* ------------------------------------------------------------------------
\* C2: two objects that differ in (is_function, namespace, name) get
\* different output paths, so the page opened in Pass A is never the page
\* of an earlier, different object.
C2_CollisionFree ==
    pc \in {"A_open", "A_write", "A_close"}
        => \A j \in 1..(i - 1) :
              Identity(tlobjects[j]) # Identity(tlobjects[i])
                 => get_create_path_for(tlobjects[j]) # filename

\* ------------------------------------------------------------------------
\* C3
\* ------------------------------------------------------------------------
\* C3: on a type page written in Pass B for key T, the constructor table
\* lists exactly the non-function objects whose result is T and the method
\* table exactly the functions whose result is T, each in schema order.
C3_TablesFollowSchema ==
    pc = "B_close"
        => LET T == tltypes[i].key
           IN  /\ tltypes[i].objs = ConstructorsOf(T)
               /\ DictGet(tlfunctions, T) = FunctionsOf(T)
               /\ Texts(TableAfter(Page, "Available constructors"))
                    = ClassNames(ConstructorsOf(T))
               /\ Texts(TableAfter(Page, "Methods returning this type"))
                    = ClassNames(FunctionsOf(T))

\* A type page listing a constructor and a method, the method first in the
\* schema
C3_Witness ==
    /\ pc = "B_close"
    /\ Len(tlobjects) >= 2
    /\ tlobjects[1].is_function
    /\ Len(TableAfter(Page, "Available constructors")) >= 1
    /\ Len(TableAfter(Page, "Methods returning this type")) >= 1

\* ------------------------------------------------------------------------
\* C4
\* ------------------------------------------------------------------------
\* C4: on every page written in Pass A the stylesheet, separator icon and
\* index links, resolved against the page's directory, denote the assets'
\* fixed locations under the output root.
C4_AssetLinksResolve ==
    pc = "A_close"
        => /\ Resolve(PageDir, Page[1].link) = original_paths.css
           /\ Resolve(PageDir, Page[2].link) = original_paths.arrow
           /\ Resolve(PageDir, Page[3].link) = original_paths.index_all
           /\ Resolve(PageDir, Page[4].link) =
                 IF tlobjects[i].is_function THEN original_paths.index_methods
                 ELSE original_paths.index_constructors

\* ------------------------------------------------------------------------
\* C5
\* ------------------------------------------------------------------------
\* C5: a second complete run over the same schema leaves every generated
\* page with the content the first run, started on the assets only, gave it.
C5_Idempotent ==
    (pc = "done" /\ run = 2) => disk = firstRun

\* ------------------------------------------------------------------------
\* C6
\* ------------------------------------------------------------------------
\* C6: the link from an object's page to itself is just its file name,
\* whether or not the page has been written.
C6_SelfLinkIsFileName ==
    probe.fn = "self_link"
        => probe.result
             = << Str(get_file_name(tlobjects[probe.obj].name, FALSE)) \o ".html" >>

\* ------------------------------------------------------------------------
\* C7
\* ------------------------------------------------------------------------
\* The sentence the claim gives for n constructors
SentenceFor(n) ==
    IF n = 0 THEN "This type has no constructors available."
    ELSE IF n = 1 THEN "This type has one constructor available."
    ELSE "This type has " \o ToString(n) \o " constructors available."

\* C7 (as stated): every type has a page whose sentence under 'Available
\* constructors' is the one for its number n of constructors; in
\* particular a type with 0 constructors gets a page with the zero-count
\* sentence.
C7_EveryTypeHasItsSentence ==
    pc = "done"
        => \A k \in DOMAIN tlobjects :
              LET T == tlobjects[k].result
              IN  /\ TypeTarget(T) \in files
                  /\ TextAfter(disk[TypeTarget(T)], "Available constructors")
                       = SentenceFor(Len(ConstructorsOf(T)))

\* C7 (amended): Pass B writes a page only for a type key that has at
\* least one constructor in the schema, so on every type page written the
\* number n of constructors is at least 1 and the sentence is 'This type
\* has one constructor available.' for n = 1 and 'This type has <n>
\* constructors available.' for n >= 2; the zero-count sentence is never
\* rendered.
C7_SentenceOnWrittenPages ==
    /\ pc \in {"B_path", "B_open", "B_write", "B_close"}
         => Len(ConstructorsOf(tltypes[i].key)) >= 1
    /\ pc = "B_close"
         => LET n == Len(ConstructorsOf(tltypes[i].key))
                sentence == TextAfter(Page, "Available constructors")
            IN  /\ sentence = SentenceFor(n)
                /\ sentence # SentenceFor(0)
                /\ Len(TableAfter(Page, "Available constructors")) = n

\* A type page with two constructors has just been written by a schema
\* that also holds functions returning a type without constructors
C7_Witness ==
    /\ pc = "B_close"
    /\ Len(ConstructorsOf(tltypes[i].key)) >= 2
    /\ TextAfter(Page, "Available constructors")
         = "This type has 2 constructors available."

\* ------------------------------------------------------------------------
\* C8
\* ------------------------------------------------------------------------
\* The arguments the claim expects in the table: pseudo-arguments removed,
\* non-flags first, schema order kept within each group
ShownArgs(o) ==
    SelectSeq(o.args, LAMBDA a : ~a.flag_indicator /\ ~a.generic_definition)
ExpectedArgs(o) ==
    SelectSeq(ShownArgs(o), LAMBDA a : ~a.is_flag)
        \o SelectSeq(ShownArgs(o), LAMBDA a : a.is_flag)

\* The name rows of the parameter table of an object page
NameRows(content) == SelectSeq(content, LAMBDA c : c.call = "add_row" /\ c.opt = "bold")
TypeRows(content) == SelectSeq(content, LAMBDA c : c.call = "add_row" /\ c.opt = "center")

\* C8: the rows of the parameter table are the object's arguments without
\* flag_indicator and generic_definition ones, every non-flag before every
\* flag, arguments of equal is_flag in their order in args.
C8_ArgsStableByFlag ==
    pc = "A_close"
        => LET expected == ExpectedArgs(tlobjects[i])
           IN  /\ Texts(NameRows(Page)) = [k \in DOMAIN expected |-> expected[k].name]
               /\ Texts(TypeRows(Page)) = [k \in DOMAIN expected |-> Str(expected[k].type)]

\* A page whose object has a flag before a non-flag and two of each
C8_Witness ==
    /\ pc = "A_close"
    /\ LET args == ShownArgs(tlobjects[i])
       IN  /\ \E a, b \in DOMAIN args : a < b /\ args[a].is_flag /\ ~args[b].is_flag
           /\ \E a, b \in DOMAIN args : a < b /\ args[a].is_flag /\ args[b].is_flag
           /\ \E a, b \in DOMAIN args : a < b /\ ~args[a].is_flag /\ ~args[b].is_flag
    /\ Len(NameRows(Page)) >= 4

\* ------------------------------------------------------------------------
\* C9
\* ------------------------------------------------------------------------
\* C9: at most one page writer is open at any moment, and a writer that was
\* opened has been closed when the next page is about to be opened and when
\* the run has ended, by returning or by a failure in the middle of a page;
\* inside a page the open writer is the one of that page.
C9_WriterScoped ==
    /\ Cardinality(open) <= 1
    /\ pc \in {"idle", "A_path", "A_open", "index", "B_path", "B_open",
               "done", "aborted"} => open = {}
    /\ pc \in {"A_write", "A_close", "B_write", "B_close"} => open = {filename}

\* A run that failed in the middle of a page: the page's file is there
\* and empty, and no writer is open
C9_Witness ==
    /\ pc = "aborted"
    /\ open = {}
    /\ \E p \in files \ Assets : disk[p] = <<>>

\* ------------------------------------------------------------------------
\* C10
\* ------------------------------------------------------------------------
\* C10: every file Pass B opens lies under 'types/' and is the .html file
\* of the type's name; no writer is opened on 'core/index.html#<name>'.
C10_NoPageForCoreType ==
    pc \in {"B_write", "B_close"}
        => \A p \in open :
              LET T == tltypes[i].key
                  file == Str(get_file_name(TypeName(T), FALSE)) \o ".html"
              IN  /\ p[1] = "types"
                  /\ p[Len(p)] = file
                  /\ p # CoreAnchor(T)

====
